---- MODULE Spec2Model ----
(***************************************************************************)
(* State-machine model of the YOLOv8 labeling tool (src/app.py): the       *)
(* ImageLabel widget (pointer handlers, display transform), the            *)
(* LabelingTool window (class registry, load / commit / save handlers) and *)
(* the files the tool reads and writes.                                    *)
(*                                                                         *)
(* Python floats are modelled as exact rationals <<n, d>> in lowest terms  *)
(* with d > 0.  Python's None and an attribute that was never assigned are *)
(* both modelled as the empty tuple <<>>.  An exception that escapes a     *)
(* handler ends the process (PyQt5 aborts on an unhandled exception in a   *)
(* slot or virtual handler); `pc` then names the exception and only a new  *)
(* start of the program is possible.                                       *)
(***************************************************************************)
EXTENDS Integers, Sequences, FiniteSets, TLC

VARIABLES
    class_to_id,          \* LabelingTool.class_to_id: name -> id
    current_class_id,     \* LabelingTool.current_class_id
    mapping_file,         \* results/class_to_id_mapping.json: <<>> absent, <<m>> content m
    image_path,           \* LabelingTool.image_path (Unset until the first load_image)
    bboxes,               \* ImageLabel.bboxes: sequence of <<x, y, w, h, class_id>>
    current_bbox,         \* ImageLabel.current_bbox: <<>> (None) or <<x, y, w, h>>
    drawing,              \* ImageLabel.drawing
    start_xy,             \* ImageLabel.start_x, start_y (<<>> until the first press)
    scale_factor,         \* ImageLabel.scale_factor
    image_offset,         \* ImageLabel.image_offset
    original_pixmap,      \* ImageLabel.original_pixmap: <<>> (None) or <<w, h>>
    pixmap,               \* QLabel.pixmap(), the scaled pixmap: <<>> (None) or <<w, h>>
    size,                 \* ImageLabel.size(): the widget's <<width, height>>
    class_input_enabled,  \* class_input.isEnabled()
    class_input_text,     \* class_input.text()
    save_button_enabled,  \* save_button.isEnabled()
    written,              \* files written by the handler that ran last (<<>> if none)
    pc                    \* "running", or the exception that ended the process

vars == <<class_to_id, current_class_id, mapping_file, image_path, bboxes,
          current_bbox, drawing, start_xy, scale_factor, image_offset,
          original_pixmap, pixmap, size, class_input_enabled, class_input_text,
          save_button_enabled, written, pc>>

----------------------------------------------------------------------------
(* Bounds and input sets                                                   *)

\* Cap on the length of the committed box list.
MaxBoxes == 1

\* Files the dialog can return: "" is a cancelled dialog; bad.png is a file
\* that QPixmap cannot decode (a null pixmap, 0 x 0).
Unset == "<unset>"
ImageOf(path) ==
    CASE path = "a.png" -> <<800, 600>>
      [] path = "b.png" -> <<800, 600>>
      [] OTHER          -> <<0, 0>>

\* Widget sizes delivered by resizeEvent (the first is the initial geometry).
Sizes == {<<800, 600>>, <<400, 400>>}

\* Mouse buttons.
Buttons == {"LeftButton", "RightButton"}

EmptyMap == [n \in {} |-> 0]

\* Inputs of the editor specification Spec: two pointer positions (drags in
\* both directions), two images and an undecodable file, one class name,
\* and no registry file before the first start.
EditorTexts == {"", "cat"}
EditorPoints == {<<100, 100>>, <<300, 400>>}
EditorPaths == {"", "a.png", "b.png", "bad.png"}
EditorFiles == {<<>>}

\* Inputs of the registry specification SpecRegistry: two class names and
\* the registry files that may exist before the first start; one pointer
\* position and one image.  The last file is registry {dog: 1, cat: 0,
\* bird: 2}.
RegistryTexts == {"", "cat", "dog"}
RegistryPoints == {<<100, 100>>}
RegistryPaths == {"", "a.png", "bad.png"}
RegistryFiles ==
    { <<>>,
      <<EmptyMap>>,
      <<[n \in {"cat"} |-> 2]>>,
      <<[n \in {"cat", "dog"} |-> IF n = "cat" THEN 1 ELSE 0]>>,
      <<[n \in {"dog", "cat", "bird"} |->
            CASE n = "dog" -> 1 [] n = "cat" -> 0 [] OTHER -> 2]>> }

\* The specification SpecFresh has the registry inputs but no registry file
\* before the first start.
FreshFiles == {<<>>}

----------------------------------------------------------------------------
(* Float arithmetic, as exact rationals                                    *)

Abs(n) == IF n < 0 THEN -n ELSE n

RECURSIVE GCD(_, _)
GCD(a, b) == IF b = 0 THEN a ELSE GCD(b, a % b)

\* n / d for integers, d # 0
Rat(n, d) ==
    LET g == GCD(Abs(n), Abs(d))
        s == IF d < 0 THEN -1 ELSE 1
    IN  <<(s * n) \div g, (s * d) \div g>>

FromInt(n) == <<n, 1>>
RAdd(p, q) == Rat(p[1] * q[2] + q[1] * p[2], p[2] * q[2])
RSub(p, q) == Rat(p[1] * q[2] - q[1] * p[2], p[2] * q[2])
RDiv(p, q) == Rat(p[1] * q[2], p[2] * q[1])
RLess(p, q) == p[1] * q[2] < q[1] * p[2]
RMin(p, q) == IF RLess(q, p) THEN q ELSE p
IsZero(p) == p[1] = 0

----------------------------------------------------------------------------
(* ImageLabel: the display transform                                       *)

\* QSize.scaled(size, Qt.KeepAspectRatio), in Qt's integer arithmetic, as
\* QPixmap.scaled applies it (each side at least 1).  orig has no zero side.
ScaledSize(orig, sz) ==
    LET rw == (sz[2] * orig[1]) \div orig[2]
        s  == IF rw <= sz[1]
              THEN <<rw, sz[2]>>
              ELSE <<sz[1], (sz[1] * orig[2]) \div orig[1]>>
    IN  <<IF s[1] < 1 THEN 1 ELSE s[1], IF s[2] < 1 THEN 1 ELSE s[2]>>

\* update_scaled_pixmap divides by the pixmap's width and height.
DividesByZero(orig) == orig[1] = 0 \/ orig[2] = 0

ScaleFactor(orig, sz) == RMin(Rat(sz[1], orig[1]), Rat(sz[2], orig[2]))

ImageOffset(orig, sz) ==
    LET sp == ScaledSize(orig, sz)
    IN  <<Rat(sz[1] - sp[1], 2), Rat(sz[2] - sp[2], 2)>>

\* (event.x() - image_offset[0]) / scale_factor, and the same for y
ToImageSpace(p) ==
    <<RDiv(RSub(FromInt(p[1]), image_offset[1]), scale_factor),
      RDiv(RSub(FromInt(p[2]), image_offset[2]), scale_factor)>>

\* update_scaled_pixmap for the pixmap orig (not None) in a widget of size sz
update_scaled_pixmap(orig, sz) ==
    IF DividesByZero(orig)
    THEN /\ pc' = "ZeroDivisionError"
         /\ UNCHANGED <<scale_factor, image_offset, pixmap>>
    ELSE /\ scale_factor' = ScaleFactor(orig, sz)
         /\ image_offset' = ImageOffset(orig, sz)
         /\ pixmap' = ScaledSize(orig, sz)
         /\ pc' = pc

----------------------------------------------------------------------------
(* LabelingTool.__init__: the state of a freshly started program           *)

RECURSIVE MaxOf(_)
MaxOf(S) ==
    LET x == CHOOSE y \in S : TRUE
    IN  IF S = {x} THEN x
        ELSE LET m == MaxOf(S \ {x}) IN IF x > m THEN x ELSE m

Ids(m) == {m[n] : n \in DOMAIN m}

\* json.load of the mapping file, when it exists
LoadedRegistry(file) == IF file = <<>> THEN EmptyMap ELSE file[1]

\* max() of an empty sequence raises ValueError
StartPc(file) ==
    IF file # <<>> /\ DOMAIN file[1] = {} THEN "ValueError" ELSE "running"

\* Mutant of LoadedNextId: the counter is not set from the loaded ids.
LoadedNextId_Zero(file) == 0

\* Mutant of LoadedNextId: the number of loaded names instead of max + 1.
LoadedNextId_Count(file) ==
    IF file = <<>> THEN 0 ELSE Cardinality(DOMAIN file[1])

\* line 117 (line 107 when there is no file)
LoadedNextId(file) ==
    IF file = <<>> \/ DOMAIN file[1] = {} THEN 0 ELSE MaxOf(Ids(file[1])) + 1

Started(file) ==
    /\ class_to_id' = LoadedRegistry(file)
    /\ current_class_id' = LoadedNextId(file)
    /\ pc' = StartPc(file)
    /\ image_path' = Unset
    /\ bboxes' = <<>>
    /\ current_bbox' = <<>>
    /\ drawing' = FALSE
    /\ start_xy' = <<>>
    /\ scale_factor' = FromInt(1)
    /\ image_offset' = <<FromInt(0), FromInt(0)>>
    /\ original_pixmap' = <<>>
    /\ pixmap' = <<>>
    /\ size' = <<800, 600>>
    /\ class_input_enabled' = FALSE
    /\ class_input_text' = ""
    /\ save_button_enabled' = FALSE
    /\ written' = <<>>

InitOver(files) ==
    /\ mapping_file \in files
    /\ class_to_id = LoadedRegistry(mapping_file)
    /\ current_class_id = LoadedNextId(mapping_file)
    /\ pc = StartPc(mapping_file)
    /\ image_path = Unset
    /\ bboxes = <<>>
    /\ current_bbox = <<>>
    /\ drawing = FALSE
    /\ start_xy = <<>>
    /\ scale_factor = FromInt(1)
    /\ image_offset = <<FromInt(0), FromInt(0)>>
    /\ original_pixmap = <<>>
    /\ pixmap = <<>>
    /\ size = <<800, 600>>
    /\ class_input_enabled = FALSE
    /\ class_input_text = ""
    /\ save_button_enabled = FALSE
    /\ written = <<>>

\* closeEvent (or a crash) followed by a new start of the program
Restart ==
    /\ Started(mapping_file)
    /\ UNCHANGED mapping_file

----------------------------------------------------------------------------
(* ImageLabel: pointer and resize handlers                                 *)

resizeEvent(sz) ==
    /\ pc = "running"
    /\ sz # size
    /\ size' = sz
    /\ IF original_pixmap # <<>>
       THEN update_scaled_pixmap(original_pixmap, sz)
       ELSE UNCHANGED <<scale_factor, image_offset, pixmap, pc>>
    /\ written' = <<>>
    /\ UNCHANGED <<class_to_id, current_class_id, mapping_file, image_path,
                   bboxes, current_bbox, drawing, start_xy, original_pixmap,
                   class_input_enabled, class_input_text, save_button_enabled>>

\* Mutant of mousePressEvent: the class input is not disabled.
mousePressEvent_NoDisable(button, p) ==
    /\ pc = "running"
    /\ written' = <<>>
    /\ IF button = "LeftButton" /\ original_pixmap # <<>>
       THEN /\ drawing' = TRUE
            /\ start_xy' = ToImageSpace(p)
            /\ current_bbox' = <<ToImageSpace(p)[1], ToImageSpace(p)[2],
                                 FromInt(0), FromInt(0)>>
       ELSE UNCHANGED <<drawing, start_xy, current_bbox>>
    /\ UNCHANGED <<class_to_id, current_class_id, mapping_file, image_path,
                   bboxes, scale_factor, image_offset, original_pixmap, pixmap,
                   size, class_input_enabled, class_input_text,
                   save_button_enabled, pc>>

mousePressEvent(button, p) ==
    /\ pc = "running"
    /\ written' = <<>>
    /\ IF button = "LeftButton" /\ original_pixmap # <<>>
       THEN IF IsZero(scale_factor)
            THEN /\ drawing' = TRUE
                 /\ pc' = "ZeroDivisionError"
                 /\ UNCHANGED <<start_xy, current_bbox, class_input_enabled>>
            ELSE /\ drawing' = TRUE
                 /\ start_xy' = ToImageSpace(p)
                 /\ current_bbox' = <<ToImageSpace(p)[1], ToImageSpace(p)[2],
                                      FromInt(0), FromInt(0)>>
                 /\ class_input_enabled' = FALSE
                 /\ pc' = pc
       ELSE UNCHANGED <<drawing, start_xy, current_bbox, class_input_enabled, pc>>
    /\ UNCHANGED <<class_to_id, current_class_id, mapping_file, image_path,
                   bboxes, scale_factor, image_offset, original_pixmap, pixmap,
                   size, class_input_text, save_button_enabled>>

mouseMoveEvent(p) ==
    /\ pc = "running"
    /\ written' = <<>>
    /\ IF drawing
       THEN IF IsZero(scale_factor)
            THEN /\ pc' = "ZeroDivisionError"
                 /\ UNCHANGED current_bbox
            ELSE IF current_bbox = <<>>
            THEN /\ pc' = "TypeError"
                 /\ UNCHANGED current_bbox
            ELSE /\ current_bbox' =
                        [current_bbox EXCEPT
                            ![3] = RSub(ToImageSpace(p)[1], start_xy[1]),
                            ![4] = RSub(ToImageSpace(p)[2], start_xy[2])]
                 /\ pc' = pc
       ELSE UNCHANGED <<current_bbox, pc>>
    /\ UNCHANGED <<class_to_id, current_class_id, mapping_file, image_path,
                   bboxes, drawing, start_xy, scale_factor, image_offset,
                   original_pixmap, pixmap, size, class_input_enabled,
                   class_input_text, save_button_enabled>>

\* Mutant of mouseReleaseEvent: the `self.drawing` test is dropped.
mouseReleaseEvent_NoDrawingTest(button) ==
    /\ pc = "running"
    /\ written' = <<>>
    /\ IF button = "LeftButton"
       THEN /\ drawing' = FALSE
            /\ class_input_enabled' = TRUE
       ELSE UNCHANGED <<drawing, class_input_enabled>>
    /\ UNCHANGED <<class_to_id, current_class_id, mapping_file, image_path,
                   bboxes, current_bbox, start_xy, scale_factor, image_offset,
                   original_pixmap, pixmap, size, class_input_text,
                   save_button_enabled, pc>>

mouseReleaseEvent(button) ==
    /\ pc = "running"
    /\ written' = <<>>
    /\ IF button = "LeftButton" /\ drawing
       THEN /\ drawing' = FALSE
            /\ class_input_enabled' = TRUE
       ELSE UNCHANGED <<drawing, class_input_enabled>>
    /\ UNCHANGED <<class_to_id, current_class_id, mapping_file, image_path,
                   bboxes, current_bbox, start_xy, scale_factor, image_offset,
                   original_pixmap, pixmap, size, class_input_text,
                   save_button_enabled, pc>>

\* line 85: the names whose id is class_id
NamesOf(registry, class_id) ==
    {n \in DOMAIN registry : registry[n] = class_id}

\* paintEvent: `[...][0]` raises IndexError when no name has a box's class id
paintEvent ==
    /\ pc = "running"
    /\ written' = <<>>
    /\ IF /\ original_pixmap # <<>>
          /\ \E i \in 1..Len(bboxes) : NamesOf(class_to_id, bboxes[i][5]) = {}
       THEN pc' = "IndexError"
       ELSE pc' = pc
    /\ UNCHANGED <<class_to_id, current_class_id, mapping_file, image_path,
                   bboxes, current_bbox, drawing, start_xy, scale_factor,
                   image_offset, original_pixmap, pixmap, size,
                   class_input_enabled, class_input_text, save_button_enabled>>

----------------------------------------------------------------------------
(* LabelingTool: load, commit and save handlers                            *)

\* Mutant of load_image: the save button is not disabled.
load_image_SaveStaysEnabled(path) ==
    /\ pc = "running"
    /\ written' = <<>>
    /\ image_path' = path
    /\ IF path # ""
       THEN /\ original_pixmap' = ImageOf(path)
            /\ update_scaled_pixmap(ImageOf(path), size)
            /\ IF DividesByZero(ImageOf(path))
               THEN UNCHANGED bboxes
               ELSE bboxes' = <<>>
       ELSE UNCHANGED <<original_pixmap, scale_factor, image_offset, pixmap,
                        bboxes, pc>>
    /\ UNCHANGED <<class_to_id, current_class_id, mapping_file, current_bbox,
                   drawing, start_xy, size, class_input_enabled,
                   class_input_text, save_button_enabled>>

\* load_image with the path the file dialog returned ("" when cancelled)
load_image(path) ==
    /\ pc = "running"
    /\ written' = <<>>
    /\ image_path' = path
    /\ IF path # ""
       THEN /\ original_pixmap' = ImageOf(path)
            /\ update_scaled_pixmap(ImageOf(path), size)
            /\ IF DividesByZero(ImageOf(path))
               THEN UNCHANGED <<bboxes, save_button_enabled>>
               ELSE /\ bboxes' = <<>>
                    /\ save_button_enabled' = FALSE
       ELSE UNCHANGED <<original_pixmap, scale_factor, image_offset, pixmap,
                        bboxes, save_button_enabled, pc>>
    /\ UNCHANGED <<class_to_id, current_class_id, mapping_file, current_bbox,
                   drawing, start_xy, size, class_input_enabled,
                   class_input_text>>

\* The user edits the class-name input, which takes input only when enabled.
setText(t) ==
    /\ pc = "running"
    /\ class_input_enabled
    /\ t # class_input_text
    /\ class_input_text' = t
    /\ written' = <<>>
    /\ UNCHANGED <<class_to_id, current_class_id, mapping_file, image_path,
                   bboxes, current_bbox, drawing, start_xy, scale_factor,
                   image_offset, original_pixmap, pixmap, size,
                   class_input_enabled, save_button_enabled, pc>>

\* Mutant of CommitAccepted: the class-name test is dropped.
CommitAccepted_NoNameTest(bbox, class_name) == bbox # <<>>

\* `if self.label.current_bbox and class_name`
CommitAccepted(bbox, class_name) == bbox # <<>> /\ class_name # ""

\* Mutant of Resolve: a registered name is given a fresh id again.
Resolve_Reassign(registry, next_id, class_name) ==
    [n \in DOMAIN registry \cup {class_name} |->
        IF n = class_name THEN next_id ELSE registry[n]]

\* lines 161-164: the registry after resolving class_name
Resolve(registry, next_id, class_name) ==
    IF class_name \notin DOMAIN registry
    THEN [n \in DOMAIN registry \cup {class_name} |->
             IF n = class_name THEN next_id ELSE registry[n]]
    ELSE registry

\* Mutant of NextIdAfter: the counter is not advanced.
NextIdAfter_NoIncrement(registry, next_id, class_name) == next_id

\* line 164: the counter after resolving class_name
NextIdAfter(registry, next_id, class_name) ==
    IF class_name \notin DOMAIN registry THEN next_id + 1 ELSE next_id

\* returnPressed of the class-name input, emitted only while it is enabled
add_class_id ==
    /\ pc = "running"
    /\ class_input_enabled
    /\ written' = <<>>
    /\ IF CommitAccepted(current_bbox, class_input_text)
       THEN /\ Len(bboxes) < MaxBoxes
            /\ class_to_id' =
                   Resolve(class_to_id, current_class_id, class_input_text)
            /\ current_class_id' =
                   NextIdAfter(class_to_id, current_class_id, class_input_text)
            /\ bboxes' = Append(bboxes,
                   Append(current_bbox,
                          Resolve(class_to_id, current_class_id,
                                  class_input_text)[class_input_text]))
            /\ current_bbox' = <<>>
            /\ class_input_text' = ""
            /\ save_button_enabled' = TRUE
       ELSE UNCHANGED <<class_to_id, current_class_id, bboxes, current_bbox,
                        class_input_text, save_button_enabled>>
    /\ UNCHANGED <<mapping_file, image_path, drawing, start_xy, scale_factor,
                   image_offset, original_pixmap, pixmap, size,
                   class_input_enabled, pc>>

\* lines 193-198: one label line <<class_id, x_center, y_center, w, h>>
LabelLine(bbox, img_width, img_height) ==
    <<bbox[5],
      RDiv(RAdd(bbox[1], RDiv(bbox[3], FromInt(2))), FromInt(img_width)),
      RDiv(RAdd(bbox[2], RDiv(bbox[4], FromInt(2))), FromInt(img_height)),
      RDiv(bbox[3], FromInt(img_width)),
      RDiv(bbox[4], FromInt(img_height))>>

LabelLines(boxes, img_width, img_height) ==
    [i \in 1..Len(boxes) |-> LabelLine(boxes[i], img_width, img_height)]

\* Mutant of SortedClassNames: sorted with reverse=True.
RECURSIVE SortedClassNames_Descending(_)
SortedClassNames_Descending(registry) ==
    IF DOMAIN registry = {} THEN <<>>
    ELSE LET first == CHOOSE n \in DOMAIN registry :
                          \A o \in DOMAIN registry : registry[n] >= registry[o]
         IN  <<first>> \o SortedClassNames_Descending(
                 [n \in DOMAIN registry \ {first} |-> registry[n]])

\* sorted(self.class_to_id, key=lambda x: self.class_to_id[x])
RECURSIVE SortedClassNames(_)
SortedClassNames(registry) ==
    IF DOMAIN registry = {} THEN <<>>
    ELSE LET first == CHOOSE n \in DOMAIN registry :
                          \A o \in DOMAIN registry : registry[n] <= registry[o]
         IN  <<first>> \o SortedClassNames(
                 [n \in DOMAIN registry \ {first} |-> registry[n]])

\* os.path.splitext(os.path.basename(image_path))[0] + '.txt'
LabelFileName(path) ==
    CASE path = "a.png"   -> "a.txt"
      [] path = "b.png"   -> "b.txt"
      [] path = "bad.png" -> "bad.txt"
      [] OTHER            -> ".txt"

\* What save_labels writes: the image, the label file, data.yaml, the mapping
SavedFiles ==
    [image      |-> [file |-> image_path, size |-> pixmap],
     label_file |-> LabelFileName(image_path),
     lines      |-> LabelLines(bboxes, pixmap[1], pixmap[2]),
     nc         |-> Cardinality(DOMAIN class_to_id),
     names      |-> SortedClassNames(class_to_id),
     mapping    |-> class_to_id]

\* Mutant of NothingToSave: the image-path test is dropped.
NothingToSave_OnlyBoxes(path, boxes) == boxes = <<>>

\* line 175: `if not self.image_path or not self.label.bboxes: return`
NothingToSave(path, boxes) == path = "" \/ boxes = <<>>

\* Mutant of save_labels: neither the disabled button nor the early return
\* of line 175 keeps a save from writing.
save_labels_Unguarded ==
    /\ pc = "running"
    /\ image_path \notin {Unset, ""}
    /\ pixmap # <<>>
    /\ written' = SavedFiles
    /\ mapping_file' = <<class_to_id>>
    /\ save_button_enabled' = FALSE
    /\ UNCHANGED <<class_to_id, current_class_id, image_path, bboxes,
                   current_bbox, drawing, start_xy, scale_factor, image_offset,
                   original_pixmap, pixmap, size, class_input_enabled,
                   class_input_text, pc>>

\* A click on the save button, which takes clicks only when enabled.
save_labels ==
    /\ pc = "running"
    /\ save_button_enabled
    /\ IF image_path = Unset
       THEN /\ pc' = "AttributeError"
            /\ written' = <<>>
            /\ UNCHANGED <<mapping_file, save_button_enabled>>
       ELSE IF NothingToSave(image_path, bboxes)
       THEN /\ written' = <<>>
            /\ UNCHANGED <<mapping_file, save_button_enabled, pc>>
       ELSE IF pixmap = <<>>
       THEN /\ pc' = "AttributeError"
            /\ written' = <<>>
            /\ UNCHANGED <<mapping_file, save_button_enabled>>
       ELSE /\ written' = SavedFiles
            /\ mapping_file' = <<class_to_id>>
            /\ save_button_enabled' = FALSE
            /\ pc' = pc
    /\ UNCHANGED <<class_to_id, current_class_id, image_path, bboxes,
                   current_bbox, drawing, start_xy, scale_factor, image_offset,
                   original_pixmap, pixmap, size, class_input_enabled,
                   class_input_text>>

----------------------------------------------------------------------------

NextOver(texts, points, paths) ==
    \/ \E path \in paths : load_image(path)
    \/ \E sz \in Sizes : resizeEvent(sz)
    \/ \E button \in Buttons, p \in points : mousePressEvent(button, p)
    \/ \E p \in points : mouseMoveEvent(p)
    \/ \E button \in Buttons : mouseReleaseEvent(button)
    \/ \E t \in texts : setText(t)
    \/ add_class_id
    \/ save_labels
    \/ paintEvent
    \/ Restart

Init == InitOver(EditorFiles)
Next == NextOver(EditorTexts, EditorPoints, EditorPaths)
Spec == Init /\ [][Next]_vars

InitRegistry == InitOver(RegistryFiles)
NextRegistry == NextOver(RegistryTexts, RegistryPoints, RegistryPaths)
SpecRegistry == InitRegistry /\ [][NextRegistry]_vars

InitFresh == InitOver(FreshFiles)
SpecFresh == InitFresh /\ [][NextRegistry]_vars

----------------------------------------------------------------------------
(* The editor's states (spec section 4.2), read off the widget's fields    *)

Idle == ~drawing /\ current_bbox = <<>>
Drawing == drawing
AwaitingLabel == ~drawing /\ current_bbox # <<>>

Positive(q) == q[1] > 0

----------------------------------------------------------------------------
(* Claims                                                                  *)

\* C1: in AwaitingLabel, a commit with a non-empty class name and a pending
\* box of zero width or zero height is rejected: the committed list and the
\* pending box are unchanged and the editor stays in AwaitingLabel.
C1_ZeroBoxCommitRejected ==
    [][ ( /\ AwaitingLabel
          /\ class_input_text # ""
          /\ (IsZero(current_bbox[3]) \/ IsZero(current_bbox[4]))
          /\ add_class_id )
        => ( /\ bboxes' = bboxes
             /\ current_bbox' = current_bbox
             /\ ~drawing' ) ]_vars

\* C2: in every reachable state every committed box has width > 0 and
\* height > 0 (a box dragged up or to the left is normalized on commit).
C2_CommittedBoxesPositive ==
    \A i \in 1..Len(bboxes) : Positive(bboxes[i][3]) /\ Positive(bboxes[i][4])

\* C3: the label lines written by save are classId, (x + w/2)/W, (y + h/2)/H,
\* w/W, h/H with W and H the loaded image's native width and height, for
\* every widget size.
C3_LabelsNormalizedByNativeSize ==
    written # <<>> =>
        written.lines = LabelLines(bboxes, original_pixmap[1], original_pixmap[2])

\* C4: loading a new image, from any editor state, leaves the editor Idle
\* with no pending box and an empty committed list.
C4_LoadResetsEditor ==
    [][ (\E path \in {"a.png", "b.png"} : load_image(path))
        => (Idle' /\ bboxes' = <<>>) ]_vars

\* C5: in AwaitingLabel, a commit with an empty class name changes neither
\* the committed list, the pending box, the registry nor its counter, and
\* the editor stays in AwaitingLabel.
C5_EmptyNameCommitIsNoOp ==
    [][ (AwaitingLabel /\ class_input_text = "" /\ add_class_id)
        => ( /\ UNCHANGED <<bboxes, current_bbox, class_to_id, current_class_id>>
             /\ AwaitingLabel' ) ]_vars

\* C5 witness: a frozen pending box with the (enabled) class input empty.
C5_Witness ==
    /\ pc = "running"
    /\ AwaitingLabel
    /\ class_input_enabled
    /\ class_input_text = ""
    /\ Positive(current_bbox[3])

\* C6: within a session, an accepted commit under a registered name uses the
\* name's id and changes neither the registry nor the counter; every other
\* change of the registry adds one new name with the counter's value as its
\* id and advances the counter by one (so N new names get the N consecutive
\* ids from the session's first counter value on).
C6_ResolveStableAndSequential ==
    [][ \/ Restart
        \/ /\ class_to_id' = class_to_id
           /\ current_class_id' = current_class_id
           /\ ( /\ add_class_id
                /\ current_bbox # <<>>
                /\ class_input_text \in DOMAIN class_to_id )
              => bboxes'[Len(bboxes')][5] = class_to_id[class_input_text]
        \/ \E n \in RegistryTexts \ DOMAIN class_to_id :
              /\ DOMAIN class_to_id' = DOMAIN class_to_id \cup {n}
              /\ class_to_id'[n] = current_class_id
              /\ \A m \in DOMAIN class_to_id : class_to_id'[m] = class_to_id[m]
              /\ current_class_id' = current_class_id + 1 ]_vars

\* C6 witness: with no registry file, two names got ids 0 and 1 and a later
\* commit under the first of them reused id 0.
C6_Witness ==
    /\ pc = "running"
    /\ mapping_file = <<>>
    /\ Ids(class_to_id) = {0, 1}
    /\ current_class_id = 2
    /\ Len(bboxes) = 1
    /\ bboxes[1][5] = 0

\* C7: a name that is in the registry file with id i has id i in memory and
\* no other name has id i, and in the next state the file and the memory
\* still map it to i and no other name to i.
C7_Kept(registry, name, id) ==
    /\ name \in DOMAIN registry
    /\ registry[name] = id
    /\ \A other \in DOMAIN registry : registry[other] = id => other = name

C7_IdsAppendOnly ==
    /\ [](mapping_file # <<>> =>
            \A n \in DOMAIN mapping_file[1] :
                C7_Kept(class_to_id, n, mapping_file[1][n]))
    /\ [][mapping_file # <<>> =>
            /\ mapping_file' # <<>>
            /\ \A n \in DOMAIN mapping_file[1] :
                  /\ C7_Kept(mapping_file'[1], n, mapping_file[1][n])
                  /\ C7_Kept(class_to_id', n, mapping_file[1][n])]_vars

\* C7 witness: a session started from a file the tool wrote in an earlier
\* session (no image loaded yet), holding both names.
C7_Witness ==
    /\ pc = "running"
    /\ image_path = Unset
    /\ mapping_file # <<>>
    /\ DOMAIN mapping_file[1] = {"cat", "dog"}
    /\ mapping_file[1]["cat"] = 2
    /\ class_to_id = mapping_file[1]

\* C8: with the registry as loaded from a non-empty file, the first new name
\* resolved gets max(loaded ids) + 1, which is no loaded id.
C8_FirstNewIdIsMaxPlusOne ==
    [][ ( /\ mapping_file # <<>>
          /\ class_to_id = mapping_file[1]
          /\ DOMAIN class_to_id # {}
          /\ add_class_id
          /\ current_bbox # <<>>
          /\ class_input_text # ""
          /\ class_input_text \notin DOMAIN class_to_id )
        => ( /\ class_input_text \in DOMAIN class_to_id'
             /\ \A i \in Ids(mapping_file[1]) : class_to_id'[class_input_text] > i
             /\ class_to_id'[class_input_text] - 1 \in Ids(mapping_file[1]) ) ]_vars

\* C8 witness: started from the file {cat: 2}, the new name dog got id 3.
C8_Witness ==
    /\ pc = "running"
    /\ mapping_file = <<[n \in {"cat"} |-> 2]>>
    /\ DOMAIN class_to_id = {"cat", "dog"}
    /\ class_to_id["dog"] = 3
    /\ Len(bboxes) = 1
    /\ bboxes[1][5] = 3

\* C9: starting with a registry file that is an empty mapping succeeds and
\* sets the next id to 0.
C9_EmptyRegistryLoads ==
    (mapping_file # <<>> /\ DOMAIN mapping_file[1] = {})
        => (pc = "running" /\ current_class_id = 0)

\* C10: no division by zero is ever performed (a zero-size image or widget
\* is rejected without computing a transform).
C10_NoDivisionByZero == pc # "ZeroDivisionError"

\* C11: a pointer-down received in AwaitingLabel leaves the pending box
\* unchanged and the editor in AwaitingLabel.
C11_PressRejectedWhileAwaitingLabel ==
    [][ (AwaitingLabel /\ \E p \in EditorPoints : mousePressEvent("LeftButton", p))
        => (current_bbox' = current_bbox /\ AwaitingLabel') ]_vars

\* C12: a pointer-move or pointer-up received while the editor is not
\* Drawing changes neither the pending box, the committed list, the drawing
\* flag nor the class input's enabled state.
C12_MoveAndReleaseIgnoredUnlessDrawing ==
    [][ ( /\ ~drawing
          /\ \/ \E p \in EditorPoints : mouseMoveEvent(p)
             \/ \E button \in Buttons : mouseReleaseEvent(button) )
        => UNCHANGED <<current_bbox, bboxes, drawing, class_input_enabled>> ]_vars

\* C12 witness: an image is loaded and the editor is Idle with the class
\* input still disabled (a move or release arrives before any press).
C12_Witness ==
    /\ pc = "running"
    /\ original_pixmap # <<>>
    /\ Idle
    /\ ~class_input_enabled

\* C13: a save requested while no image path is set or the committed list
\* is empty completes without error, writes nothing and changes no state.
C13_SaveWithNothingToSaveIsNoOp ==
    [][ (save_labels /\ (image_path \in {Unset, ""} \/ bboxes = <<>>))
        => ( /\ pc' = "running"
             /\ written' = <<>>
             /\ UNCHANGED <<class_to_id, current_class_id, mapping_file,
                            image_path, bboxes, current_bbox, drawing, start_xy,
                            scale_factor, image_offset, original_pixmap, pixmap,
                            size, class_input_enabled, class_input_text,
                            save_button_enabled>> ) ]_vars

\* C13 witness: the save button is enabled, boxes are committed and the
\* image path is empty (a cancelled dialog), so a click on save returns early.
C13_Witness ==
    /\ pc = "running"
    /\ save_button_enabled
    /\ image_path = ""
    /\ bboxes # <<>>

\* C14: the manifest written by save has nc equal to the number of names in
\* the registry and lists every name once, in ascending id order.
C14_ManifestOrderedById ==
    written # <<>> =>
        /\ written.nc = Cardinality(DOMAIN class_to_id)
        /\ Len(written.names) = written.nc
        /\ {written.names[i] : i \in 1..Len(written.names)} = DOMAIN class_to_id
        /\ \A i, j \in 1..Len(written.names) :
              i < j => class_to_id[written.names[i]] < class_to_id[written.names[j]]

\* C14 witness: with registry {dog: 1, cat: 0, bird: 2} a save wrote the
\* names [cat, dog, bird] and nc = 3.
C14_Witness ==
    /\ written # <<>>
    /\ written.mapping = [n \in {"dog", "cat", "bird"} |->
                             CASE n = "dog" -> 1 [] n = "cat" -> 0 [] OTHER -> 2]
    /\ written.names = <<"cat", "dog", "bird">>
    /\ written.nc = 3

\* C15: in every reachable state the class id of every committed box is the
\* id of exactly one name of the registry, and the reverse lookup of
\* paintEvent has never failed.
C15_BoxIdsNamedOnce ==
    /\ \A i \in 1..Len(bboxes) :
          Cardinality({n \in DOMAIN class_to_id : class_to_id[n] = bboxes[i][5]}) = 1
    /\ pc # "IndexError"

\* C15 witness: with three names loaded from the registry file, a box is
\* committed under dog (id 1).
C15_Witness ==
    /\ pc = "running"
    /\ DOMAIN class_to_id = {"dog", "cat", "bird"}
    /\ Len(bboxes) = 1
    /\ bboxes[1][5] = 1

\* C16: the class input is disabled in every state in which the editor is
\* Drawing, and after every accepted commit it is enabled with empty text.
C16_InputDisabledWhileDrawing ==
    /\ []((pc = "running" /\ Drawing) => ~class_input_enabled)
    /\ [][ (add_class_id /\ current_bbox # <<>> /\ class_input_text # "")
           => (class_input_enabled' /\ class_input_text' = "") ]_vars

\* C16 witness: a second box is being drawn after an accepted commit.
C16_Witness ==
    /\ pc = "running"
    /\ Drawing
    /\ ~class_input_enabled
    /\ bboxes # <<>>
    /\ ~IsZero(current_bbox[3])

\* C17: a cancelled image load, received with committed boxes and the save
\* button enabled, leaves the session unchanged, the image path included (so
\* that a following save still writes the label file).
C17_CancelledLoadChangesNothing ==
    [][ (load_image("") /\ bboxes # <<>> /\ save_button_enabled)
        => UNCHANGED <<class_to_id, current_class_id, mapping_file, image_path,
                       bboxes, current_bbox, drawing, start_xy, scale_factor,
                       image_offset, original_pixmap, pixmap, size,
                       class_input_enabled, class_input_text,
                       save_button_enabled, pc>> ]_vars

C19_Contiguous(registry) ==
    Ids(registry) = 0..(Cardinality(DOMAIN registry) - 1)

C19_IdsAreZeroToNMinusOne ==
    /\ C19_Contiguous(class_to_id)
    /\ current_class_id = Cardinality(DOMAIN class_to_id)
    /\ mapping_file # <<>> => C19_Contiguous(mapping_file[1])
    /\ written # <<>> =>
          \A i \in 1..Len(written.names) : class_to_id[written.names[i]] = i - 1

\* C19 witness: a session started from a file the tool wrote with two names
\* has committed and saved a box.
C19_Witness ==
    /\ pc = "running"
    /\ written # <<>>
    /\ written.nc = 2
    /\ current_class_id = 2
    /\ written.names = <<"dog", "cat">>

\* C20: starting from no registry file, a save that writes the registry
\* file writes at least one name, the registry file is never an empty
\* mapping and the start of the program never takes max() of no ids.
C20_RegistryFileNeverEmpty ==
    /\ written # <<>> =>
          (DOMAIN class_to_id # {} /\ mapping_file = <<class_to_id>>)
    /\ mapping_file # <<>> => DOMAIN mapping_file[1] # {}
    /\ pc # "ValueError"

\* C20 witness: a new start of the program from a registry file that the
\* tool wrote (no image loaded yet in this session).
C20_Witness ==
    /\ pc = "running"
    /\ mapping_file # <<>>
    /\ image_path = Unset
    /\ class_to_id = mapping_file[1]
    /\ current_class_id = 1

====
